---- MODULE Spec2Model ----
(***************************************************************************)
(* Model of the batched completion orchestrator of kakashi                 *)
(* (rust/src/utils.rs): is_single_prompt, prepare_prompt_batches,           *)
(* send_request and openai_completion.                                      *)
(*                                                                          *)
(* One call of openai_completion is one behaviour.  The arguments of the    *)
(* call are chosen in Init; every answer of the completion endpoint is      *)
(* chosen by the environment when the request in flight returns.            *)
(***************************************************************************)
EXTENDS Integers, Sequences, FiniteSets, TLC

(* ------------------------------ bounds --------------------------------- *)

\* longest array of prompts passed to the call
MaxPrompts == 3

\* largest batch_size argument (0 is included: usize admits it)
MaxBatchSize == 2

\* largest max_instances argument
MaxInstances == 3

\* largest max_tokens of the caller's decoding arguments
MaxTokens == 3

\* largest n (completions per prompt) of the caller's decoding arguments
MaxN == 2

\* the model stops issuing requests after this many transport attempts
MaxAttempts == 4

(* ------------------------------ values --------------------------------- *)

\* serde_json::Value, as far as the orchestrator looks at it: the kind of the
\* value, the elements of an array, and an identity for a prompt.
JsonValue(kind, id, elems) == [kind |-> kind, id |-> id, elems |-> elems]

\* the prompt with identity i, a JSON string
StringPrompt(i) == JsonValue("string", i, << >>)

\* the array [prompt 1, ..., prompt k]
ArrayPrompt(k) == JsonValue("array", 0, [i \in 1..k |-> StringPrompt(i)])

\* the values a caller can pass as `prompt`
PromptInputs ==
    {JsonValue(kind, 1, << >>) : kind \in {"string", "object", "number", "bool", "null"}}
        \cup {ArrayPrompt(k) : k \in 0..MaxPrompts}

\* OpenAIDecodingArguments: the two fields the orchestrator reads or writes
DecodingArguments == [max_tokens : 0..MaxTokens, n : 1..MaxN]

\* a JSON number
JsonNumber(v) == JsonValue("number", v, << >>)

\* the max_tokens a caller may pass among the extra kwargs: a number that no
\* typed max_tokens of the model takes, shrunk or not
KwargsMaxTokens == MaxTokens + 2

\* decoding_kwargs: empty, or with the key "max_tokens"
KwargsInputs ==
    { << >>, [k \in {"max_tokens"} |-> JsonNumber(KwargsMaxTokens)] }

\* text of an error, as a sequence of words
ContextLengthPhrase == <<"Please", "reduce", "your", "prompt">>

\* Min of two naturals
Min(a, b) == IF a <= b THEN a ELSE b

\* str::contains on word sequences
Contains(text, phrase) ==
    \E i \in 1..(Len(text) - Len(phrase) + 1) :
        SubSeq(text, i, i + Len(phrase) - 1) = phrase

\* concatenation of a sequence of sequences
RECURSIVE Flatten(_)
Flatten(ss) == IF ss = << >> THEN << >> ELSE Head(ss) \o Flatten(Tail(ss))

(* ----------------------- is_single_prompt ------------------------------ *)

is_single_prompt(p) == p.kind = "string" \/ p.kind = "object"

(* --------------------- prepare_prompt_batches -------------------------- *)

\* Iterator::take(max_instances)
Take(s, m) == SubSeq(s, 1, Min(Len(s), m))

\* (num_prompts as f64 / batch_size as f64).ceil() as usize.  x / 0.0 is NaN
\* for x = 0 and +inf otherwise; `as usize` saturates: NaN gives 0 and +inf
\* gives usize::MAX (huge |-> TRUE).
NumPromptBatches(num_prompts, bs) ==
    IF bs = 0
    THEN [huge |-> num_prompts > 0, count |-> 0]
    ELSE [huge |-> FALSE, count |-> (num_prompts + bs - 1) \div bs]

\* prompts[start..end] panics when end exceeds the length of the vector
SliceInRange(len, start, end) == start <= end /\ end <= len

\* The result of prepare_prompt_batches: the batches, or a panic.  A count of
\* usize::MAX makes collect() panic on the capacity of the vector.
prepare_prompt_batches(ps, bs, mi) ==
    LET taken == Take(ps, mi)
        num == NumPromptBatches(Len(taken), bs)
        start(b) == b * bs
        end(b) == (b + 1) * bs
    IN  IF num.huge
        THEN [panic |-> TRUE, batches |-> << >>]
        ELSE IF \E b \in 0..(num.count - 1) : ~SliceInRange(Len(taken), start(b), end(b))
        THEN [panic |-> TRUE, batches |-> << >>]
        ELSE [panic |-> FALSE,
              batches |-> [i \in 1..num.count |->
                              SubSeq(taken, start(i - 1) + 1, end(i - 1))]]

(* --------------------------- send_request ------------------------------ *)

\* u32::to_string / usize::to_string: the decimal digits
RECURSIVE to_string(_)
to_string(v) == IF v < 10 THEN <<v>> ELSE to_string(v \div 10) \o <<v % 10>>

\* Value::to_string of a JSON number: its digits
json_to_string(value) == to_string(value.id)

\* lines 120-141: the typed entries of request_data the model follows
TypedData(args) ==
    [k \in {"max_tokens", "n"} |->
        IF k = "max_tokens" THEN to_string(args.max_tokens) ELSE to_string(args.n)]

\* InsertKwargs that keeps an entry the map already holds
InsertKwargsKeepTyped(data, kwargs) ==
    [k \in DOMAIN data \cup DOMAIN kwargs |->
        IF k \in DOMAIN data THEN data[k] ELSE json_to_string(kwargs[k])]

\* lines 143-146: HashMap::insert of every kwargs entry; an insert under a
\* key the map holds replaces the value
InsertKwargs(data, kwargs) ==
    [k \in DOMAIN data \cup DOMAIN kwargs |->
        IF k \in DOMAIN kwargs THEN json_to_string(kwargs[k]) ELSE data[k]]

\* One call of send_request: the batch and the decoding arguments it is
\* given (lines 215-216) and the request_data it posts (lines 119-146).
RequestData(prompt_batch, args, kwargs) ==
    [sent |-> TRUE,
     prompt |-> prompt_batch,
     decoding_args |-> args,
     data |-> InsertKwargs(TypedData(args), kwargs)]

\* no request has been built
NoRequest == [sent |-> FALSE, prompt |-> << >>, decoding_args |-> << >>, data |-> << >>]

\* One record of the "choices" array: a JSON object with the generated text
\* (which prompt, which of its completions) and metadata (here: the attempt
\* of the batch that produced it).
Choice(p, c, att) ==
    [kind |-> "object", text |-> <<p.id, c>>, meta |-> <<att>>, elems |-> << >>]

\* n choices per prompt of the batch, prompt-major
FullChoices(prompt_batch, n, att) ==
    [k \in 1..(Len(prompt_batch) * n) |->
        Choice(prompt_batch[((k - 1) \div n) + 1], (k - 1) % n, att)]

\* the "choices" array of a 200 answer of the given shape
ChoicesOfShape(shape, prompt_batch, n, att) ==
    LET full == FullChoices(prompt_batch, n, att)
    IN  CASE shape = "full"  -> full
          [] shape = "short" -> SubSeq(full, 1, Len(full) - 1)
          [] shape = "extra" -> full \o <<Choice(prompt_batch[1], n, att)>>

\* the shapes of the "choices" array the endpoint may answer with
Shapes == {"full", "short", "extra"}

\* StatusCode's Display: the code and its canonical reason
StatusOK == <<"200", "OK">>
StatusBadRequest == <<"400", "Bad", "Request">>
StatusTooManyRequests == <<"429", "Too", "Many", "Requests">>

\* What one round trip can bring back.  via = "http": the endpoint answered
\* with `status`; body is "choices" (a JSON object with a choices array of
\* `shape`), "no_choices" (JSON without a choices array), "not_json", or
\* "error" (an error document whose message is `text`).  via = "client": the
\* HTTP client failed (send().await? or json().await?) and `text` is the
\* client's own error text, which this source does not determine.
Answer(via, status, body, shape, text) ==
    [via |-> via, status |-> status, body |-> body, shape |-> shape, text |-> text]

\* message of the endpoint's context-length error document
ContextLengthBody == <<"This", "model's", "maximum", "context", "length", "is", "exceeded."
                      >> \o ContextLengthPhrase

\* message of the endpoint's rate-limit error document
RateLimitBody == <<"Rate", "limit", "reached">>

\* Texts of errors raised by the HTTP client itself (propagated by `?` at
\* lines 153 and 158).  Their wording belongs to the client library and to
\* what it wraps, not to this source; the second text is one that carries
\* the phrase line 228 looks for, and is the only failure of send_request
\* that does (the failure built at line 156 holds the status alone).
ClientErrorTexts ==
    {<<"error", "sending", "request">>,
     <<"error", "sending", "request:">> \o ContextLengthPhrase}

Answers ==
    {Answer("http", StatusOK, "choices", s, << >>) : s \in Shapes}
        \cup {Answer("http", StatusOK, "no_choices", "none", << >>),
              Answer("http", StatusOK, "not_json", "none", << >>),
              Answer("http", StatusBadRequest, "error", "none", ContextLengthBody),
              Answer("http", StatusTooManyRequests, "error", "none", RateLimitBody)}
        \cup {Answer("client", << >>, "none", "none", t) : t \in ClientErrorTexts}

NoAnswer == Answer("none", << >>, "none", "none", << >>)

\* Result<Vec<Value>, Box<dyn Error>> of send_request, or a panic
Ok(choices) == [kind |-> "ok", choices |-> choices, text |-> << >>]
Err(text) == [kind |-> "err", choices |-> << >>, text |-> text]
Panic == [kind |-> "panic", choices |-> << >>, text |-> << >>]

\* the text of the failure built for a status other than 200:
\* format!("OpenAIError: {}", response.status())
StatusError(ans) == <<"OpenAIError:">> \o ans.status

\* text of the serde error of response.json() on a body that is no JSON
DecodeErrorText == <<"error", "decoding", "response", "body">>

\* send_request with the body decoded by unwrap() instead of `?`
send_requestUnwrapBody(ans, prompt_batch, n, att) ==
    IF ans.via = "client" THEN Err(ans.text)
    ELSE IF ans.status # StatusOK THEN Err(StatusError(ans))
    ELSE IF ans.body # "choices" THEN Panic
    ELSE Ok(ChoicesOfShape(ans.shape, prompt_batch, n, att))

\* send_request with a missing choices array read as an empty one
send_requestDefaultChoices(ans, prompt_batch, n, att) ==
    IF ans.via = "client" THEN Err(ans.text)
    ELSE IF ans.status # StatusOK THEN Err(StatusError(ans))
    ELSE IF ans.body = "not_json" THEN Err(DecodeErrorText)
    ELSE IF ans.body # "choices" THEN Ok(<< >>)
    ELSE Ok(ChoicesOfShape(ans.shape, prompt_batch, n, att))

\* send_request after the request was posted: what it returns for an answer to
\* the request for prompt_batch (attempt att of the batch, n choices asked).
send_request(ans, prompt_batch, n, att) ==
    IF ans.via = "client" THEN Err(ans.text)
    ELSE IF ans.status # StatusOK THEN Err(StatusError(ans))
    ELSE IF ans.body = "not_json" THEN Err(DecodeErrorText)
    ELSE IF ans.body # "choices" THEN Panic
    ELSE Ok(ChoicesOfShape(ans.shape, prompt_batch, n, att))

(* ------------------------- openai_completion --------------------------- *)

VARIABLES
    pc,                  \* where the call is
    prompt, decoding_args, batch_size, max_instances, return_text,   \* arguments
    decoding_kwargs,                                                 \* arguments
    single_prompt, prompts, prompt_batches,
    batch_id,            \* index of the batch the for loop is at (0-based)
    batch_decoding_args, success, completions,
    request,             \* payload of the last request posted
    answer,              \* what the round trip of the last request brought back
    err,                 \* text of the failure the last request ended with
    result,              \* what the call returned
    attempts,            \* history: requests posted by the call
    failures,            \* history: requests of the call that ended in a failure
    batch_attempts,      \* history: requests posted for the current batch
    batch_sleeps,        \* history: sleeps finished in the current batch
    rate_fails,          \* history: failures of the batch without the phrase
    ctx_fails,           \* history: failures of the batch with the phrase
    shrinks_before,      \* history: ctx_fails summed over the earlier batches
    sent_tokens,         \* history: max_tokens payloads posted for the batch
    succeeded            \* history: per finished batch, its successful attempt

args == <<prompt, decoding_args, batch_size, max_instances, return_text, decoding_kwargs>>
locals == <<single_prompt, prompts, prompt_batches, batch_id, batch_decoding_args,
            success, completions, request, answer, err, result>>
history == <<attempts, failures, batch_attempts, batch_sleeps, rate_fails, ctx_fails,
             shrinks_before, sent_tokens, succeeded>>
vars == <<pc, args, locals, history>>

NoResult == [kind |-> "none", value |-> << >>]

Init ==
    /\ pc = "start"
    /\ prompt \in PromptInputs
    /\ decoding_args \in DecodingArguments
    /\ batch_size \in 0..MaxBatchSize
    /\ max_instances \in 0..MaxInstances
    /\ return_text \in BOOLEAN
    /\ decoding_kwargs \in KwargsInputs
    /\ single_prompt = FALSE
    /\ prompts = << >>
    /\ prompt_batches = << >>
    /\ batch_id = 0
    /\ batch_decoding_args = decoding_args
    /\ success = FALSE
    /\ completions = << >>
    /\ request = NoRequest
    /\ answer = NoAnswer
    /\ err = << >>
    /\ result = NoResult
    /\ attempts = 0
    /\ failures = 0
    /\ batch_attempts = 0
    /\ batch_sleeps = 0
    /\ rate_fails = 0
    /\ ctx_fails = 0
    /\ shrinks_before = 0
    /\ sent_tokens = {}
    /\ succeeded = << >>

\* lines 190-195: classify the prompt and make the vector of prompts;
\* as_array() is None for a value that is no array and unwrap() panics
Normalize ==
    /\ pc = "start"
    /\ IF is_single_prompt(prompt)
       THEN /\ single_prompt' = TRUE
            /\ prompts' = <<prompt>>
            /\ pc' = "prepare"
       ELSE IF prompt.kind = "array"
       THEN /\ single_prompt' = FALSE
            /\ prompts' = prompt.elems
            /\ pc' = "prepare"
       ELSE /\ single_prompt' = FALSE
            /\ prompts' = prompts
            /\ pc' = "panicked"
    /\ UNCHANGED <<args, prompt_batches, batch_id, batch_decoding_args, success,
                   completions, request, answer, err, result, history>>

\* lines 197-204: form the batches
Prepare ==
    /\ pc = "prepare"
    /\ LET r == prepare_prompt_batches(prompts, batch_size, max_instances)
       IN  IF r.panic
           THEN /\ pc' = "panicked"
                /\ prompt_batches' = prompt_batches
           ELSE /\ pc' = "for"
                /\ prompt_batches' = r.batches
    /\ completions' = << >>
    /\ batch_id' = 0
    /\ UNCHANGED <<args, single_prompt, prompts, batch_decoding_args, success,
                   request, answer, err, result, history>>

\* CloneArgs with the clone hoisted out of the for loop: a batch goes on
\* with the working copy the batch before it left
CloneArgsOnce(caller_args, previous) == previous

\* line 207: the working copy of the decoding arguments of a batch
CloneArgs(caller_args, previous) == caller_args

\* lines 206-208: enter the for loop's body for the next batch
BeginBatch ==
    /\ pc = "for"
    /\ batch_id < Len(prompt_batches)
    /\ batch_decoding_args' = CloneArgs(decoding_args, batch_decoding_args)
    /\ success' = FALSE
    /\ pc' = "send"
    /\ shrinks_before' = Min(shrinks_before + ctx_fails, MaxAttempts)
    /\ batch_attempts' = 0
    /\ batch_sleeps' = 0
    /\ rate_fails' = 0
    /\ ctx_fails' = 0
    /\ sent_tokens' = {}
    /\ UNCHANGED <<args, single_prompt, prompts, prompt_batches, batch_id, completions,
                   request, answer, err, result, attempts, failures, succeeded>>

\* a history counter, one more; the counters stop at MaxAttempts
Count(c) == IF c < MaxAttempts THEN c + 1 ELSE c

\* lines 210-153: the while loop's test and send_request up to the round trip
PostRequest ==
    /\ pc = "send"
    /\ ~success
    /\ request' = RequestData(prompt_batches[batch_id + 1], batch_decoding_args,
                              decoding_kwargs)
    /\ answer' = NoAnswer
    /\ err' = << >>
    /\ pc' = "await"
    /\ attempts' = Count(attempts)
    /\ batch_attempts' = Count(batch_attempts)
    /\ sent_tokens' = sent_tokens \cup {request'.decoding_args.max_tokens}
    /\ UNCHANGED <<args, single_prompt, prompts, prompt_batches, batch_id,
                   batch_decoding_args, success, completions, result, failures,
                   batch_sleeps, rate_fails, ctx_fails, shrinks_before, succeeded>>

\* PostRequest, in a model that follows MaxAttempts requests of a call
SendRequest ==
    /\ attempts < MaxAttempts
    /\ PostRequest

\* Shrink with the product rounded to the nearest integer instead of truncated
ShrinkRounded(max_tokens) == (max_tokens * 8 + 5) \div 10

\* Shrink with a floor of one token
ShrinkFloored(max_tokens) ==
    IF (max_tokens * 8) \div 10 < 1 THEN 1 ELSE (max_tokens * 8) \div 10

\* line 230: (max_tokens as f64 * 0.8) as u32; the cast truncates, and the
\* product of a u32 by the double 0.8 never crosses an integer
Shrink(max_tokens) == (max_tokens * 8) \div 10

\* ErrorBranch with every failure taken for a context-length failure
ErrorBranchAlwaysShrink(text) == "shrink"

\* line 228: which arm of the error handler a failure takes
ErrorBranch(text) == IF Contains(text, ContextLengthPhrase) THEN "shrink" ELSE "sleep"

\* OnOk with the choices assigned to the completions instead of appended
OnOkOverwrite(choices) ==
    /\ completions' = choices
    /\ success' = TRUE
    /\ batch_id' = batch_id + 1
    /\ pc' = "for"
    /\ UNCHANGED batch_decoding_args

\* lines 221-224: Ok(choices)
OnOk(choices) ==
    /\ completions' = completions \o choices
    /\ success' = TRUE
    /\ batch_id' = batch_id + 1
    /\ pc' = "for"
    /\ UNCHANGED batch_decoding_args

\* OnErr that gives the batch up after a failure of the rate-limit class
OnErrGiveUp(text) ==
    /\ IF ErrorBranch(text) = "shrink"
       THEN /\ batch_decoding_args' =
                   [batch_decoding_args EXCEPT !.max_tokens = Shrink(@)]
            /\ pc' = "send"
            /\ UNCHANGED <<success, batch_id>>
       ELSE /\ batch_decoding_args' = batch_decoding_args
            /\ success' = TRUE
            /\ batch_id' = batch_id + 1
            /\ pc' = "for"
    /\ UNCHANGED completions

\* OnErr that shrinks max_tokens after every failure, before the sleep too
OnErrShrinkAlways(text) ==
    /\ batch_decoding_args' = [batch_decoding_args EXCEPT !.max_tokens = Shrink(@)]
    /\ pc' = IF ErrorBranch(text) = "shrink" THEN "send" ELSE "sleep"
    /\ UNCHANGED <<completions, success, batch_id>>

\* lines 225-239: Err(err)
OnErr(text) ==
    /\ IF ErrorBranch(text) = "shrink"
       THEN /\ batch_decoding_args' =
                   [batch_decoding_args EXCEPT !.max_tokens = Shrink(@)]
            /\ pc' = "send"
       ELSE /\ batch_decoding_args' = batch_decoding_args
            /\ pc' = "sleep"
    /\ UNCHANGED <<completions, success, batch_id>>

\* lines 155-160 and 220-240: the round trip returns with one of `answers`
\* and the match runs
ReceiveFrom(answers) ==
    /\ pc = "await"
    /\ \E ans \in answers :
          LET r == send_request(ans, prompt_batches[batch_id + 1],
                                batch_decoding_args.n, batch_attempts)
              failed(with) == r.kind = "err" /\ Contains(r.text, ContextLengthPhrase) = with
          IN  /\ answer' = ans
              /\ err' = r.text
              /\ CASE r.kind = "ok" -> OnOk(r.choices)
                   [] r.kind = "err" -> OnErr(r.text)
                   [] OTHER -> /\ pc' = "panicked"
                               /\ UNCHANGED <<completions, success, batch_id,
                                              batch_decoding_args>>
              /\ ctx_fails' = IF failed(TRUE) THEN Count(ctx_fails) ELSE ctx_fails
              /\ rate_fails' = IF failed(FALSE) THEN Count(rate_fails) ELSE rate_fails
              /\ failures' = IF r.kind = "err" THEN Count(failures) ELSE failures
              /\ succeeded' = IF r.kind = "ok"
                              THEN Append(succeeded, [att |-> batch_attempts,
                                                      shape |-> ans.shape])
                              ELSE succeeded
    /\ UNCHANGED <<args, single_prompt, prompts, prompt_batches, request, result,
                   attempts, batch_attempts, batch_sleeps, shrinks_before, sent_tokens>>

\* the round trip returns with any answer
Receive == ReceiveFrom(Answers)

\* line 237: thread::sleep returns
Sleep ==
    /\ pc = "sleep"
    /\ pc' = "send"
    /\ batch_sleeps' = Count(batch_sleeps)
    /\ UNCHANGED <<args, locals, attempts, failures, batch_attempts, rate_fails, ctx_fails,
                   shrinks_before, sent_tokens, succeeded>>

\* line 247: completion["text"].clone()
TextOf(choice) == [kind |-> "string", text |-> choice.text, meta |-> << >>, elems |-> << >>]

\* lines 244-249
ExtractText(cs, only_text) ==
    IF only_text THEN [i \in 1..Len(cs) |-> TextOf(cs[i])] ELSE cs

\* line 255: Value::Array(chunk.to_vec())
Group(chunk) == [kind |-> "array", text |-> << >>, meta |-> << >>, elems |-> chunk]

\* Regroup left out
RegroupSkipped(cs, n) == cs

\* lines 251-257: chunks(n) gives ceil(len / n) slices, the last one shorter
\* when n does not divide len
Regroup(cs, n) ==
    IF n > 1
    THEN [i \in 1..((Len(cs) + n - 1) \div n) |->
             Group(SubSeq(cs, (i - 1) * n + 1, Min(i * n, Len(cs))))]
    ELSE cs

\* Collapse that keeps the last completion instead of the first
CollapseLast(cs, single) ==
    IF ~single THEN [kind |-> "ok", value |-> cs]
    ELSE IF cs = << >> THEN [kind |-> "panic", value |-> << >>]
    ELSE [kind |-> "ok", value |-> <<cs[Len(cs)]>>]

\* lines 259-262: completions[0] panics on an empty vector
Collapse(cs, single) ==
    IF ~single THEN [kind |-> "ok", value |-> cs]
    ELSE IF cs = << >> THEN [kind |-> "panic", value |-> << >>]
    ELSE [kind |-> "ok", value |-> <<cs[1]>>]

\* Reshape with the single-prompt collapse done before the regrouping
ReshapeCollapseFirst ==
    /\ pc = "for"
    /\ batch_id = Len(prompt_batches)
    /\ LET r == Collapse(ExtractText(completions, return_text), single_prompt)
       IN  IF r.kind = "panic"
           THEN /\ pc' = "panicked"
                /\ result' = result
           ELSE /\ pc' = "done"
                /\ result' = [kind |-> "ok", value |-> Regroup(r.value, decoding_args.n)]
    /\ UNCHANGED <<args, single_prompt, prompts, prompt_batches, batch_id,
                   batch_decoding_args, success, completions, request, answer, err,
                   history>>

\* lines 244-264: the for loop is over; shape the completions and return
Reshape ==
    /\ pc = "for"
    /\ batch_id = Len(prompt_batches)
    /\ LET r == Collapse(Regroup(ExtractText(completions, return_text),
                                 decoding_args.n), single_prompt)
       IN  IF r.kind = "panic"
           THEN /\ pc' = "panicked"
                /\ result' = result
           ELSE /\ pc' = "done"
                /\ result' = r
    /\ UNCHANGED <<args, single_prompt, prompts, prompt_batches, batch_id,
                   batch_decoding_args, success, completions, request, answer, err,
                   history>>

Next ==
    \/ Normalize
    \/ Prepare
    \/ BeginBatch
    \/ SendRequest
    \/ Receive
    \/ Sleep
    \/ Reshape

Spec == Init /\ [][Next]_vars

(* ------------- a transport that dooms the last batch ------------------- *)

\* the failures whose text carries the context-length phrase
ContextLengthFailures ==
    {ans \in Answers : ans.via = "client" /\ Contains(ans.text, ContextLengthPhrase)}

\* the for loop is at the last batch
AtLastBatch == batch_id + 1 = Len(prompt_batches)

\* the round trip returns; every request of the last batch fails with the
\* context-length phrase, the requests of the other batches end in any way
ReceiveDoomed ==
    ReceiveFrom(IF AtLastBatch THEN ContextLengthFailures ELSE Answers)

\* the call never stops issuing requests here: there is no bound on the
\* retries in the source (the history counters stop at MaxAttempts)
NextDoomed ==
    \/ Normalize
    \/ Prepare
    \/ BeginBatch
    \/ PostRequest
    \/ ReceiveDoomed
    \/ Sleep
    \/ Reshape

\* the calls that ask for one choice per prompt and for the raw choices
InitDoomed == Init /\ decoding_args.n = 1 /\ ~return_text

\* The call is one thread of control: it takes its next step whenever it has
\* one (a round trip and a sleep both end).
SpecDoomed == InitDoomed /\ [][NextDoomed]_vars /\ WF_vars(NextDoomed)

(* ------------------------------ claims --------------------------------- *)

\* prepare_prompt_batches has been called with the vector of prompts
PrepareCalled ==
    /\ pc \notin {"start", "prepare"}
    /\ (is_single_prompt(prompt) \/ prompt.kind = "array")

\* the prompts left after the truncation to max_instances
Truncated == Take(prompts, max_instances)

\* ceil(a / b) for b >= 1
CeilDiv(a, b) == (a + b - 1) \div b

\* C1: for batch_size >= 1, prepare_prompt_batches returns
\* ceil(min(k, max_instances) / batch_size) batches, each of batch_size
\* prompts except the last, which holds the remainder, and their
\* concatenation is the truncated sequence of prompts.
C1_BatchesPartitionPrompts ==
    (PrepareCalled /\ batch_size >= 1) =>
        /\ Len(prompt_batches) = CeilDiv(Len(Truncated), batch_size)
        /\ \A i \in 1..Len(prompt_batches) :
              Len(prompt_batches[i]) =
                  IF i < Len(prompt_batches)
                  THEN batch_size
                  ELSE Len(Truncated) - (i - 1) * batch_size
        /\ Flatten(prompt_batches) = Truncated

\* the last element of a non-empty sequence
Last(s) == s[Len(s)]

\* the last k elements of a sequence
Suffix(s, k) == SubSeq(s, Len(s) - k + 1, Len(s))

\* the batch whose while loop has just ended with a success
BatchJustSucceeded == pc = "for" /\ success

\* C2: in a batch whose failures are all of the rate-limit class (none
\* carries the context-length phrase), every failure is followed by one
\* sleep, every attempt carries the caller's max_tokens, and when the batch
\* succeeds after m failures there were m sleeps and m + 1 attempts and the
\* choices recorded for the batch are those of attempt m + 1.
C2_RateLimitRetriesUnchanged ==
    ctx_fails = 0 =>
        /\ sent_tokens \subseteq {decoding_args.max_tokens}
        /\ (pc = "await" /\ "max_tokens" \notin DOMAIN decoding_kwargs) =>
              request.data["max_tokens"] = to_string(decoding_args.max_tokens)
        /\ batch_decoding_args = decoding_args
        /\ batch_sleeps = IF pc = "sleep" THEN rate_fails - 1 ELSE rate_fails
        /\ BatchJustSucceeded =>
              LET recorded == ChoicesOfShape(Last(succeeded).shape,
                                             prompt_batches[batch_id],
                                             decoding_args.n, rate_fails + 1)
              IN  /\ batch_attempts = rate_fails + 1
                  /\ batch_sleeps = rate_fails
                  /\ Len(completions) >= Len(recorded)
                  /\ Suffix(completions, Len(recorded)) = recorded

\* C2 witness: a batch succeeded on its third attempt after two rate-limit
\* failures and two sleeps
C2_Witness ==
    /\ BatchJustSucceeded
    /\ ctx_fails = 0
    /\ rate_fails = 2
    /\ batch_sleeps = 2
    /\ batch_attempts = 3
    /\ completions # << >>

\* floor(8 * x / 10) = y, stated without the division
IsFloorOfFourFifths(y, x) == 10 * y <= 8 * x /\ 8 * x < 10 * (y + 1)

ContextLengthAnswer ==
    /\ answer.via = "http"
    /\ answer.status # StatusOK
    /\ Contains(answer.text, ContextLengthPhrase)

\* C4: after a non-200 answer whose body carries the context-length message,
\* the failure of send_request carries the message and the call is in the
\* shrink branch, not sleeping.
C4_StatusFailureCarriesMessage ==
    ContextLengthAnswer =>
        /\ Contains(err, ContextLengthPhrase)
        /\ pc # "sleep"
        /\ batch_sleeps = rate_fails

\* the first request of a batch is in flight
FirstAttemptInFlight == pc = "await" /\ batch_attempts = 1

\* C5: the first attempt of every batch carries the caller's max_tokens,
\* whatever was shrunk in the batches before it, and no step changes the
\* caller's decoding arguments.
C5_ShrinkIsBatchLocal ==
    /\ [](FirstAttemptInFlight =>
             /\ request.decoding_args = decoding_args
             /\ "max_tokens" \notin DOMAIN decoding_kwargs =>
                   request.data["max_tokens"] = to_string(decoding_args.max_tokens))
    /\ [][decoding_args' = decoding_args]_vars

\* C5 witness: the first request of a later batch is in flight after an
\* earlier batch has shrunk its own max_tokens
C5_Witness ==
    /\ FirstAttemptInFlight
    /\ batch_id >= 1
    /\ shrinks_before >= 1
    /\ decoding_args.max_tokens >= 1
    /\ request.data["max_tokens"] = to_string(decoding_args.max_tokens)

\* the round trip in flight ends with a failure
FailureStep == pc = "await" /\ pc' \in {"send", "sleep"}

\* C6: a request is always for the batch right after the batches that have
\* succeeded; the for loop moves on by one batch, and only when the request
\* in flight succeeds; a failure of either class leaves the batch in place.
C6_BatchesInOrder ==
    [][ /\ batch_id' \in {batch_id, batch_id + 1}
        /\ batch_id' = batch_id + 1 =>
              /\ pc = "await"
              /\ answer'.status = StatusOK
              /\ answer'.body = "choices"
              /\ Len(succeeded') = Len(succeeded) + 1
        /\ FailureStep => (batch_id' = batch_id /\ succeeded' = succeeded)
        /\ pc' = "await" =>
              /\ batch_id' = Len(succeeded')
              /\ batch_id' < Len(prompt_batches')
              /\ request'.prompt = prompt_batches'[batch_id' + 1]
      ]_vars

\* C6 witness: the second batch is retried after a failure of its own,
\* the first batch having succeeded
C6_Witness ==
    /\ pc = "await"
    /\ batch_id = 1
    /\ Len(succeeded) = 1
    /\ batch_attempts = 2
    /\ rate_fails + ctx_fails = 1

\* the for loop over the batches is over
LeftRetryLoops ==
    \/ pc = "for" /\ batch_id = Len(prompt_batches)
    \/ pc = "done"

\* the choices of the successful attempt of batch i
SuccessfulChoices(i) ==
    ChoicesOfShape(succeeded[i].shape, prompt_batches[i], decoding_args.n,
                   succeeded[i].att)

\* C7: once the retry loops are left, the completions are the choices of the
\* one successful attempt of each batch, concatenated in batch order.
C7_CompletionsAreSuccessfulChoices ==
    LeftRetryLoops =>
        /\ Len(succeeded) = Len(prompt_batches)
        /\ completions = Flatten([i \in 1..Len(prompt_batches) |-> SuccessfulChoices(i)])

\* C7 witness: two batches done, the first one on its second attempt
C7_Witness ==
    /\ LeftRetryLoops
    /\ Len(prompt_batches) = 2
    /\ Len(succeeded) = 2
    /\ succeeded[1].att = 2
    /\ completions # << >>

\* every successful answer had n choices per prompt, prompt-major
AllAnswersFull == \A i \in 1..Len(succeeded) : succeeded[i].shape = "full"

\* C8: for n > 1 and an array of prompts, when every successful answer has n
\* choices per prompt in prompt-major order, the result has one element per
\* truncated prompt, in prompt order, and element j is the array of the n
\* completions of prompt j in completion order.
C8_GroupsPerPrompt ==
    (pc = "done" /\ decoding_args.n > 1 /\ prompt.kind = "array" /\ AllAnswersFull) =>
        /\ result.kind = "ok"
        /\ Len(result.value) = Min(Len(prompt.elems), max_instances)
        /\ \A j \in 1..Len(result.value) :
              /\ result.value[j].kind = "array"
              /\ Len(result.value[j].elems) = decoding_args.n
              /\ \A c \in 1..Len(result.value[j].elems) :
                    result.value[j].elems[c].text = <<prompt.elems[j].id, c - 1>>

\* C8 witness: two prompts in two batches, two completions each, regrouped
C8_Witness ==
    /\ pc = "done"
    /\ decoding_args.n = 2
    /\ prompt.kind = "array"
    /\ AllAnswersFull
    /\ Len(prompt_batches) = 2
    /\ Len(result.value) = 2
    /\ ~return_text

\* C9: for a single prompt and n = 1 the result has one element, the first
\* choice of the first batch: its text when return_text is set, the whole
\* choice otherwise.
C9_SinglePromptFirstChoice ==
    (pc = "done" /\ is_single_prompt(prompt) /\ decoding_args.n = 1) =>
        /\ result.kind = "ok"
        /\ Len(result.value) = 1
        /\ Len(succeeded) >= 1
        /\ LET first == Choice(prompt, 0, succeeded[1].att)
           IN  result.value[1] =
                   IF return_text
                   THEN [kind |-> "string", text |-> first.text,
                         meta |-> << >>, elems |-> << >>]
                   ELSE first

\* C9 witness: a single string prompt, one choice on the first try, text only
C9_Witness ==
    /\ pc = "done"
    /\ prompt.kind = "string"
    /\ decoding_args.n = 1
    /\ batch_size = 1
    /\ max_instances = 1
    /\ return_text
    /\ attempts = 1
    /\ Len(result.value) = 1
    /\ result.value[1].kind = "string"

\* the prompt is neither a string, an object nor an array
MalformedPrompt == prompt.kind \notin {"string", "object", "array"}

\* C10: a prompt that is neither a string, an object nor an array makes the
\* call return the error InvalidPromptShape, without a request and without a
\* panic.
C10_MalformedPromptIsReported ==
    (MalformedPrompt /\ pc # "start") =>
        /\ pc # "panicked"
        /\ result = [kind |-> "err", value |-> <<"InvalidPromptShape">>]
        /\ attempts = 0

\* C11: batch_size = 0 makes the call return the error InvalidBatchSize at
\* once, whatever the prompts and max_instances: no batch, no request, no
\* panic.
C11_ZeroBatchSizeIsReported ==
    (PrepareCalled /\ batch_size = 0) =>
        /\ pc # "panicked"
        /\ result = [kind |-> "err", value |-> <<"InvalidBatchSize">>]
        /\ prompt_batches = << >>
        /\ attempts = 0

\* the round trip ended in a failure of the request: the client failed, the
\* status is not 200, or the body of a 200 answer cannot be decoded
FailedAnswer(ans) ==
    \/ ans.via = "client"
    \/ ans.via = "http" /\ (ans.status # StatusOK \/ ans.body = "not_json")

MalformedSuccessAnswer ==
    /\ answer.via = "http"
    /\ answer.status = StatusOK
    /\ answer.body \in {"not_json", "no_choices"}

C18_EmptyInputReturns ==
    (PrepareCalled /\ batch_size >= 1 /\ Truncated = << >>) =>
        /\ prompt_batches = << >>
        /\ attempts = 0
        /\ batch_sleeps = 0
        /\ pc \in {"for", "done"}
        /\ pc = "done" => result.kind = "ok"

\* C19: for a single prompt with n > 1 whose batch is answered with n
\* choices, the result has one element, the array of all n completions of
\* the prompt in order, each reduced to its text when return_text is set.
C19_SinglePromptGroup ==
    (pc = "done" /\ is_single_prompt(prompt) /\ decoding_args.n > 1 /\ AllAnswersFull) =>
        /\ Len(result.value) = 1
        /\ Len(succeeded) = 1
        /\ result.value[1].kind = "array"
        /\ Len(result.value[1].elems) = decoding_args.n
        /\ \A c \in 1..Len(result.value[1].elems) :
              LET choice == Choice(prompt, c - 1, succeeded[1].att)
              IN  result.value[1].elems[c] =
                      IF return_text
                      THEN [kind |-> "string", text |-> choice.text,
                            meta |-> << >>, elems |-> << >>]
                      ELSE choice

\* C19 witness: a single prompt, n = 2, text only: one group of two texts
C19_Witness ==
    /\ pc = "done"
    /\ is_single_prompt(prompt)
    /\ decoding_args.n = 2
    /\ return_text
    /\ AllAnswersFull
    /\ Len(result.value) = 1
    /\ Len(result.value[1].elems) = 2

\* floor(0.8 * x) applied k times
RECURSIVE ShrunkTimes(_, _)
ShrunkTimes(x, k) == IF k = 0 THEN x ELSE ShrunkTimes((4 * x) \div 5, k - 1)

\* a request is in flight, or was when the call panicked on its answer
InFlight ==
    IF pc = "await" \/ (pc = "panicked" /\ answer.body = "no_choices") THEN 1 ELSE 0

\* C16: whatever the order of the failures of a batch, at every step the
\* sleeps begun in the batch are as many as its failures without the phrase,
\* its working max_tokens is the caller's with floor(0.8 * x) applied once
\* per failure with the phrase, and the requests of the call are as many as
\* the succeeded batches plus the failures plus the request in flight.
C16_RetryAccounting ==
    /\ batch_sleeps + (IF pc = "sleep" THEN 1 ELSE 0) = rate_fails
    /\ batch_decoding_args.max_tokens = ShrunkTimes(decoding_args.max_tokens, ctx_fails)
    /\ batch_decoding_args.n = decoding_args.n
    /\ attempts = Len(succeeded) + failures + InFlight
    /\ failures >= shrinks_before + ctx_fails + rate_fails

\* C16 witness: a batch had one failure of each class and is retried with
\* max_tokens shrunk once
C16_Witness ==
    /\ pc = "await"
    /\ ctx_fails = 1
    /\ rate_fails = 1
    /\ batch_sleeps = 1
    /\ attempts = 3
    /\ decoding_args.max_tokens = 3
    /\ batch_decoding_args.max_tokens = 2

\* the kwargs hold the key "max_tokens"
KwargsCollide == "max_tokens" \in DOMAIN decoding_kwargs

\* C17: when the kwargs hold the key "max_tokens", the request_data of
\* every attempt carries the kwargs value under that key, not the typed
\* field: also after a context-length failure, when the typed field has
\* been reduced.
C17_KwargsOverrideTypedField ==
    (request.sent /\ KwargsCollide) =>
        /\ request.data["max_tokens"] = to_string(decoding_kwargs["max_tokens"].id)
        /\ request.data["max_tokens"] # to_string(request.decoding_args.max_tokens)

\* C17 witness: the retry after a context-length failure is in flight; its
\* working max_tokens is 2 and its payload carries the kwargs value
C17_Witness ==
    /\ pc = "await"
    /\ KwargsCollide
    /\ ctx_fails = 1
    /\ decoding_args.max_tokens = 3
    /\ request.decoding_args.max_tokens = 2
    /\ request.data["max_tokens"] = to_string(KwargsMaxTokens)

\* the input the call is written for: a prompt or an array of prompts, and
\* batches of at least one prompt
ValidInput == ~MalformedPrompt /\ batch_size >= 1

\* C14 (its first half, in the form a finite run settles): with valid input
\* and a transport whose every round trip is a failure or a well-formed
\* success, the call does not stop short of a result, and the result it
\* returns covers every batch of the truncated prompts.
C14_ValidCallReturnsEveryBatch ==
    ValidInput =>
        /\ pc = "panicked" => (answer.body = "no_choices" \/ ~AllAnswersFull)
        /\ pc = "done" =>
              /\ result.kind = "ok"
              /\ Len(succeeded) = Len(prompt_batches)
              /\ Len(prompt_batches) = CeilDiv(Len(Truncated), batch_size)

\* the call is in the retry loop of the last batch
Doomed == pc \in {"send", "await", "sleep"} /\ AtLastBatch

====
